---- MODULE Spec2Model ----
(***************************************************************************)
(* Image metadata service: the single-image upload handler                 *)
(* (server/src/controllers/single-image.controller.js) run by concurrent   *)
(* requests against the shared UserActivity / ImagesModel collections and  *)
(* the S3 bucket, and the batch processor of spec.md section 4.1 built on  *)
(* the same per-image primitives.                                          *)
(***************************************************************************)
EXTENDS Integers, Sequences, FiniteSets, TLC

\* ---------------------------------------------------------------- bounds
NumReq == 2
MaxTokens == 2

Req == 1..NumReq
Users == {"u1", "u2"}
Files == {"f1", "f2"}
NoFile == "nofile"
SuppliedBatchIds == {"b1"}
NoBatchId == ""

VARIABLES
  pc,          \* position of each request inside uploadSingleImage
  req,         \* userId, newBatchId and image of each request
  doc,         \* the userActivity document each request holds in memory
  tempFiles,   \* requests whose local staging file (metaResult.imagePath) exists
  ev,          \* what each request has done so far: generation, put, record append, debit
  resp,        \* the response each request has sent
  dbActivity,  \* UserActivity collection: one document per user
  dbImages,    \* ImagesModel collection: one record per (userId, batchId)
  s3,          \* object keys stored in the bucket
  initTokens   \* the balance each user started with

svars == <<pc, req, doc, tempFiles, ev, resp, dbActivity, dbImages, s3, initTokens>>

\* ------------------------------------------------------------ documents
NoReq == [userId |-> "", batchId |-> "", file |-> NoFile]
NoLocalDoc == [availableTokens |-> 0, totalImageProcessed |-> 0, pending |-> <<>>]
NoEv == [gen |-> "none", put |-> "none", rec |-> "none", debit |-> "none"]
NoResp == [status |-> 0, remainingTokens |-> -1]
NoActivity == [exists |-> FALSE, availableTokens |-> 0, totalImageProcessed |-> 0,
               tokenHistory |-> <<>>]

\* uuidv4(): an identifier no other request and no caller has
Uuid(r) == <<"g1", "g2", "g3", "g4">>[r]

\* batchId || uuidv4()
NewBatchId(b, r) == IF b = NoBatchId THEN Uuid(r) ELSE b

ObjectKey(q) == <<"uploads", q.userId, q.batchId, q.file>>

\* the sign the dashboard gives a token-history entry
IsAddition(e) == e.actionType \in {"purchase", "assigned", "refund"}

Delta(e) == IF IsAddition(e) THEN e.count ELSE 0 - e.count

RECURSIVE SumDeltas(_)
SumDeltas(h) == IF h = <<>> THEN 0 ELSE Delta(Head(h)) + SumDeltas(Tail(h))

\* the check off by one
LacksHeadroomBelowZero(avail) == avail < 0

\* availableTokens < 1
LacksHeadroom(avail) == avail < 1

\* userActivity.useTokens(amount, description, batchId) on the in-memory document
UseTokens(d, amount, bid, r) ==
  [d EXCEPT !.availableTokens = @ - amount,
            !.pending = Append(@, [actionType |-> "usage", count |-> amount,
                                   batchId |-> bid, img |-> r])]

InitialHistory(t) ==
  IF t = 0 THEN <<>>
  ELSE <<[actionType |-> "assigned", count |-> t, batchId |-> NoBatchId, img |-> 0]>>

\* the records of the user u for the batch id b
RecordsOf(recs, u, b) ==
  {i \in 1..Len(recs) : recs[i].userId = u /\ recs[i].batchId = b}

\* a plain insert in place of the upsert
PushImageInsert(recs, u, b, img) ==
  Append(recs, [userId |-> u, batchId |-> b, id |-> img.by, images |-> <<img>>])

\* ImagesModel.findOneAndUpdate({userId, batchId}, {$setOnInsert, $push}, {upsert})
RECURSIVE PushImage(_, _, _, _)
PushImage(recs, u, b, img) ==
  IF recs = <<>>
  THEN <<[userId |-> u, batchId |-> b, id |-> img.by, images |-> <<img>>]>>
  ELSE IF Head(recs).userId = u /\ Head(recs).batchId = b
       THEN <<[Head(recs) EXCEPT !.images = Append(@, img)]>> \o Tail(recs)
       ELSE <<Head(recs)>> \o PushImage(Tail(recs), u, b, img)


\* ===================================================== the batch processor
\* processBatch(userId, batchId, images, constraints, isRegeneration) of
\* section 4.1: validation, headroom check, generation and storage with bounded
\* parallelism (section 5), and a single writer that debits and records the
\* outcomes in submission order.
MaxBatch == 3
MaxPar == 2
MaxPass == 2
MaxFileMB == 45
\* two tokens taken per image
TwoTokensPerImage == 1 + 1

TokensPerImage == 1

\* any image type accepted, as by a prefix test on "image/"
AnyImageMime == {"image/jpeg", "image/png", "image/webp", "image/gif"}

AllowedMime == {"image/jpeg", "image/png", "image/webp"}

FileKinds ==
  { [mime |-> "image/jpeg", size |-> 1],
    [mime |-> "image/gif", size |-> 1],
    [mime |-> "image/png", size |-> MaxFileMB + 1] }

VARIABLES
  bpc,         \* "received", "running", "done"
  bPass,       \* 1 for the first pass, more for a regeneration
  bKind,       \* MIME type and size (MB) of each file
  bImages,     \* the files submitted to the current pass, in order
  bStage,      \* per position: "queued", "generating", "storing", "stored", "failed", "recorded"
  bReason,     \* per position: the failure reason, "" when none
  bCalls,      \* per position: was the generator, the blob store, the ledger invoked
  bWrite,      \* position of the next outcome the writer records
  bShort,      \* the balance seen by the headroom check that short-circuited, -1 when none
  bBalance,    \* the user's ledger balance
  bLedger,     \* the user's ledger entries
  bStart,      \* the balance when the current pass started
  bLedgerErr,  \* a debit of the current pass failed with a ledger-level error
  bSucc,       \* successfulImages of the current pass
  bFail,       \* failedImages of the current pass
  bStore,      \* files in the blob store
  bRecord,     \* Batch Record Store: every outcome appended, over all passes
  bPrev,       \* files the previous pass rejected as "invalid file"
  bOverlap     \* some image completed while an earlier one was still in flight

bvars == <<bpc, bPass, bKind, bImages, bStage, bReason, bCalls, bWrite, bShort, bBalance,
           bLedger, bStart, bLedgerErr, bSucc, bFail, bStore, bRecord, bPrev, bOverlap>>

\* balances a pass starts with: none, one token, one short of the batch, a surplus
StartBalances == {0, 1, MaxBatch - 1, MaxBatch + 2}

NoCalls == [gen |-> FALSE, put |-> FALSE, debit |-> FALSE]
Pos == 1..Len(bImages)

\* step 1: type and size check
Validate(k) == k.mime \in AllowedMime /\ k.size <= MaxFileMB

InFlight == {i \in Pos : bStage[i] \in {"generating", "storing"}}

\* admitted images whose token is not debited yet
Reserved == {i \in Pos : bStage[i] \in {"generating", "storing", "stored"}}

Queued == {i \in Pos : bStage[i] = "queued"}

RECURSIVE FilesOf(_)
FilesOf(outs) == IF outs = <<>> THEN <<>> ELSE <<Head(outs).file>> \o FilesOf(Tail(outs))

BatchInit ==
  /\ bpc = "received"
  /\ bPass = 1
  /\ \E n \in 1..MaxBatch :
       /\ bImages = [i \in 1..n |-> i]
       /\ bKind \in [1..n -> FileKinds]
  /\ bStage = <<>>
  /\ bReason = <<>>
  /\ bCalls = <<>>
  /\ bWrite = 1
  /\ bShort = -1
  /\ \E t \in StartBalances :
       /\ bBalance = t
       /\ bLedger = InitialHistory(t)
       /\ bStart = t
  /\ bLedgerErr = FALSE
  /\ bSucc = <<>>
  /\ bFail = <<>>
  /\ bStore = {}
  /\ bRecord = <<>>
  /\ bPrev = {}
  /\ bOverlap = FALSE

\* the pass begins: every image is validated before any side effect
StartPass ==
  /\ bpc = "received"
  /\ bpc' = "running"
  /\ bStage' = [i \in Pos |-> IF Validate(bKind[bImages[i]]) THEN "queued" ELSE "failed"]
  /\ bReason' = [i \in Pos |-> IF Validate(bKind[bImages[i]]) THEN "" ELSE "invalid file"]
  /\ bCalls' = [i \in Pos |-> NoCalls]
  /\ bStart' = bBalance
  /\ UNCHANGED <<bPass, bKind, bImages, bWrite, bShort, bBalance, bLedger, bLedgerErr,
                 bSucc, bFail, bStore, bRecord, bPrev, bOverlap>>

\* step 2 and step 3 begin for the next queued image: when the balance, less
\* the tokens of the images admitted and not yet debited, cannot cover it, the
\* rest of the batch is short-circuited; otherwise the generator is called
Dispatch ==
  /\ bpc = "running"
  /\ Queued # {}
  /\ Cardinality(InFlight) < MaxPar
  /\ LET i == CHOOSE q \in Queued : \A o \in Queued : q <= o IN
       IF LacksHeadroom(bBalance - TokensPerImage * Cardinality(Reserved))
       THEN /\ bStage' = [j \in Pos |-> IF j \in Queued THEN "failed" ELSE bStage[j]]
            /\ bReason' = [j \in Pos |-> IF j \in Queued THEN "insufficient tokens"
                                                         ELSE bReason[j]]
            /\ bShort' = bBalance
            /\ UNCHANGED bCalls
       ELSE /\ bStage' = [bStage EXCEPT ![i] = "generating"]
            /\ bCalls' = [bCalls EXCEPT ![i].gen = TRUE]
            /\ UNCHANGED <<bReason, bShort>>
  /\ UNCHANGED <<bpc, bPass, bKind, bImages, bWrite, bBalance, bLedger, bStart,
                 bLedgerErr, bSucc, bFail, bStore, bRecord, bPrev, bOverlap>>

EarlierInFlight(i) == \E j \in InFlight : j < i

\* GenDone with a generator failure thrown out of the loop over the images
GenDoneAborting(i) ==
  /\ bpc = "running"
  /\ bStage[i] = "generating"
  /\ \E res \in {"ok", "generation error", "generation timeout"} :
       IF res = "ok"
       THEN /\ bStage' = [bStage EXCEPT ![i] = "storing"]
            /\ bCalls' = [bCalls EXCEPT ![i].put = TRUE]
            /\ UNCHANGED <<bReason, bOverlap>>
       ELSE /\ bStage' = [j \in Pos |-> IF j = i \/ j \in Queued THEN "failed" ELSE bStage[j]]
            /\ bReason' = [j \in Pos |-> IF j = i \/ j \in Queued THEN res ELSE bReason[j]]
            /\ bOverlap' = (bOverlap \/ EarlierInFlight(i))
            /\ UNCHANGED bCalls
  /\ UNCHANGED <<bpc, bPass, bKind, bImages, bWrite, bShort, bBalance, bLedger, bStart,
                 bLedgerErr, bSucc, bFail, bStore, bRecord, bPrev>>

\* step 3 ends: metadata, or a failure of the generator
GenDone(i) ==
  /\ bpc = "running"
  /\ bStage[i] = "generating"
  /\ \E res \in {"ok", "generation error", "generation timeout"} :
       IF res = "ok"
       THEN /\ bStage' = [bStage EXCEPT ![i] = "storing"]
            /\ bCalls' = [bCalls EXCEPT ![i].put = TRUE]
            /\ UNCHANGED <<bReason, bOverlap>>
       ELSE /\ bStage' = [bStage EXCEPT ![i] = "failed"]
            /\ bReason' = [bReason EXCEPT ![i] = res]
            /\ bOverlap' = (bOverlap \/ EarlierInFlight(i))
            /\ UNCHANGED bCalls
  /\ UNCHANGED <<bpc, bPass, bKind, bImages, bWrite, bShort, bBalance, bLedger, bStart,
                 bLedgerErr, bSucc, bFail, bStore, bRecord, bPrev>>

\* step 4 ends: the object is stored, or the put failed
StoreDone(i) ==
  /\ bpc = "running"
  /\ bStage[i] = "storing"
  /\ \E ok \in BOOLEAN :
       IF ok
       THEN /\ bStage' = [bStage EXCEPT ![i] = "stored"]
            /\ bStore' = bStore \cup {bImages[i]}
            /\ UNCHANGED bReason
       ELSE /\ bStage' = [bStage EXCEPT ![i] = "failed"]
            /\ bReason' = [bReason EXCEPT ![i] = "storage failed"]
            /\ UNCHANGED bStore
  /\ bOverlap' = (bOverlap \/ EarlierInFlight(i))
  /\ UNCHANGED <<bpc, bPass, bKind, bImages, bCalls, bWrite, bShort, bBalance, bLedger,
                 bStart, bLedgerErr, bSucc, bFail, bRecord, bPrev>>

Finish(w) == IF w > Len(bImages) THEN "done" ELSE "running"

\* WriteFailure that moves on without appending the outcome
WriteFailureDropped ==
  /\ bpc = "running"
  /\ bWrite <= Len(bImages)
  /\ bStage[bWrite] = "failed"
  /\ bStage' = [bStage EXCEPT ![bWrite] = "recorded"]
  /\ bWrite' = bWrite + 1
  /\ bpc' = Finish(bWrite + 1)
  /\ UNCHANGED <<bPass, bKind, bImages, bReason, bCalls, bShort, bBalance, bLedger,
                 bStart, bLedgerErr, bSucc, bFail, bRecord, bStore, bPrev, bOverlap>>

\* step 6 for a failed image: the single writer records the failure
WriteFailure ==
  /\ bpc = "running"
  /\ bWrite <= Len(bImages)
  /\ bStage[bWrite] = "failed"
  /\ bFail' = Append(bFail, [pos |-> bWrite, file |-> bImages[bWrite],
                             error |-> bReason[bWrite]])
  /\ bRecord' = Append(bRecord, [file |-> bImages[bWrite], variant |-> "Failure",
                                 pass |-> bPass])
  /\ bStage' = [bStage EXCEPT ![bWrite] = "recorded"]
  /\ bWrite' = bWrite + 1
  /\ bpc' = Finish(bWrite + 1)
  /\ UNCHANGED <<bPass, bKind, bImages, bReason, bCalls, bShort, bBalance, bLedger,
                 bStart, bLedgerErr, bSucc, bStore, bPrev, bOverlap>>

\* WriteSuccess that records whichever stored image is ready, in completion order
WriteSuccessAsCompleted ==
  /\ bpc = "running"
  /\ \E i \in Pos :
       /\ bStage[i] = "stored"
       /\ bBalance' = bBalance - TokensPerImage
       /\ bLedger' = Append(bLedger, [actionType |-> "usage", count |-> TokensPerImage,
                                      batchId |-> "b1", img |-> bImages[i]])
       /\ bCalls' = [bCalls EXCEPT ![i].debit = TRUE]
       /\ bSucc' = Append(bSucc, [pos |-> i, file |-> bImages[i]])
       /\ bRecord' = Append(bRecord, [file |-> bImages[i], variant |-> "Success",
                                      pass |-> bPass])
       /\ bStage' = [bStage EXCEPT ![i] = "recorded"]
       /\ bWrite' = IF i = bWrite THEN bWrite + 1 ELSE bWrite
       /\ bpc' = Finish(bWrite')
  /\ UNCHANGED <<bPass, bKind, bImages, bReason, bShort, bStart, bLedgerErr, bFail, bStore,
                 bPrev, bOverlap>>

\* steps 5 and 6 for a stored image: the single writer debits one token and
\* records the success; a ledger-level error is flagged and nothing is rolled back
WriteSuccess ==
  /\ bpc = "running"
  /\ bWrite <= Len(bImages)
  /\ bStage[bWrite] = "stored"
  /\ \E ok \in BOOLEAN :
       IF ok
       THEN /\ bBalance' = bBalance - TokensPerImage
            /\ bLedger' = Append(bLedger, [actionType |-> "usage", count |-> TokensPerImage,
                                           batchId |-> "b1", img |-> bImages[bWrite]])
            /\ UNCHANGED bLedgerErr
       ELSE /\ bLedgerErr' = TRUE
            /\ UNCHANGED <<bBalance, bLedger>>
  /\ bCalls' = [bCalls EXCEPT ![bWrite].debit = TRUE]
  /\ bSucc' = Append(bSucc, [pos |-> bWrite, file |-> bImages[bWrite]])
  /\ bRecord' = Append(bRecord, [file |-> bImages[bWrite], variant |-> "Success",
                                 pass |-> bPass])
  /\ bStage' = [bStage EXCEPT ![bWrite] = "recorded"]
  /\ bWrite' = bWrite + 1
  /\ bpc' = Finish(bWrite + 1)
  /\ UNCHANGED <<bPass, bKind, bImages, bReason, bShort, bStart, bFail, bStore, bPrev,
                 bOverlap>>

\* the caller resubmits the failed files of the finished pass under the same batch id
Regenerate ==
  /\ bpc = "done"
  /\ bFail # <<>>
  /\ bPass < MaxPass
  /\ bpc' = "received"
  /\ bPass' = bPass + 1
  /\ bImages' = FilesOf(bFail)
  /\ bPrev' = {bFail[k].file : k \in {j \in 1..Len(bFail) : bFail[j].error = "invalid file"}}
  /\ bStage' = <<>>
  /\ bReason' = <<>>
  /\ bCalls' = <<>>
  /\ bWrite' = 1
  /\ bShort' = -1
  /\ bLedgerErr' = FALSE
  /\ bSucc' = <<>>
  /\ bFail' = <<>>
  /\ bOverlap' = FALSE
  /\ UNCHANGED <<bKind, bBalance, bLedger, bStart, bStore, bRecord>>

ProcessBatch ==
  \/ StartPass
  \/ Dispatch
  \/ \E i \in Pos : GenDone(i)
  \/ \E i \in Pos : StoreDone(i)
  \/ WriteFailure
  \/ WriteSuccess

BatchNext ==
  \/ ProcessBatch
  \/ Regenerate

\* ------------------------------------------------------------------ Init
ServerInit ==
  /\ pc = [r \in Req |-> "idle"]
  /\ req = [r \in Req |-> NoReq]
  /\ doc = [r \in Req |-> NoLocalDoc]
  /\ tempFiles = {}
  /\ ev = [r \in Req |-> NoEv]
  /\ resp = [r \in Req |-> NoResp]
  /\ \E t \in 0..MaxTokens, has2 \in BOOLEAN :
       /\ initTokens = [u \in Users |-> IF u = "u1" THEN t ELSE IF has2 THEN 1 ELSE 0]
       /\ dbActivity =
            [u \in Users |->
               IF u = "u1"
               THEN [exists |-> TRUE, availableTokens |-> t, totalImageProcessed |-> 0,
                     tokenHistory |-> InitialHistory(t)]
               ELSE IF has2
               THEN [exists |-> TRUE, availableTokens |-> 1, totalImageProcessed |-> 0,
                     tokenHistory |-> InitialHistory(1)]
               ELSE NoActivity]
  /\ dbImages = <<>>
  /\ s3 = {}

\* --------------------------------------------------------------- actions
Fail(r, status) ==
  /\ resp' = [resp EXCEPT ![r] = [status |-> status, remainingTokens |-> -1]]
  /\ pc' = [pc EXCEPT ![r] = "done"]

\* lines 31-36: the request arrives; no image -> 400
Receive(r) ==
  /\ pc[r] = "idle"
  /\ \E u \in Users, f \in Files \cup {NoFile}, b \in SuppliedBatchIds \cup {NoBatchId} :
       IF f = NoFile
       THEN /\ Fail(r, 400)
            /\ UNCHANGED req
       ELSE /\ req' = [req EXCEPT ![r] = [userId |-> u, batchId |-> NewBatchId(b, r),
                                          file |-> f]]
            /\ pc' = [pc EXCEPT ![r] = "findOne"]
            /\ UNCHANGED resp
  /\ UNCHANGED <<doc, tempFiles, ev, dbActivity, dbImages, s3, initTokens>>

\* lines 38-43: read the user's activity document and check the balance
FindOne(r) ==
  /\ pc[r] = "findOne"
  /\ LET a == dbActivity[req[r].userId] IN
       IF ~a.exists
       THEN /\ Fail(r, 404)
            /\ UNCHANGED doc
       ELSE IF LacksHeadroom(a.availableTokens)
       THEN /\ Fail(r, 400)
            /\ UNCHANGED doc
       ELSE /\ doc' = [doc EXCEPT ![r] = [availableTokens |-> a.availableTokens,
                                          totalImageProcessed |-> a.totalImageProcessed,
                                          pending |-> <<>>]]
            /\ pc' = [pc EXCEPT ![r] = "processImage"]
            /\ UNCHANGED resp
  /\ UNCHANGED <<req, tempFiles, ev, dbActivity, dbImages, s3, initTokens>>

\* lines 47-53 and the catch of 104-109: generate the metadata into a staging file
ProcessImage(r) ==
  /\ pc[r] = "processImage"
  /\ \E ok \in BOOLEAN :
       IF ok
       THEN /\ tempFiles' = tempFiles \cup {r}
            /\ ev' = [ev EXCEPT ![r].gen = "ok"]
            /\ pc' = [pc EXCEPT ![r] = "putObject"]
            /\ UNCHANGED resp
       ELSE /\ ev' = [ev EXCEPT ![r].gen = "fail"]
            /\ Fail(r, 500)
            /\ UNCHANGED tempFiles
  /\ UNCHANGED <<req, doc, dbActivity, dbImages, s3, initTokens>>

\* PutObject with the failure of the put swallowed instead of thrown
PutObjectSwallowed(r) ==
  /\ pc[r] = "putObject"
  /\ \E ok \in BOOLEAN :
       /\ IF ok
          THEN /\ s3' = s3 \cup {ObjectKey(req[r])}
               /\ ev' = [ev EXCEPT ![r].put = "ok"]
          ELSE /\ ev' = [ev EXCEPT ![r].put = "fail"]
               /\ UNCHANGED s3
       /\ pc' = [pc EXCEPT ![r] = "findOneAndUpdate"]
       /\ UNCHANGED resp
  /\ tempFiles' = tempFiles \ {r}
  /\ UNCHANGED <<req, doc, dbActivity, dbImages, initTokens>>

\* PutObject with a catch that leaves the staging file behind
PutObjectKeepsStaging(r) ==
  /\ pc[r] = "putObject"
  /\ \E ok \in BOOLEAN :
       IF ok
       THEN /\ s3' = s3 \cup {ObjectKey(req[r])}
            /\ ev' = [ev EXCEPT ![r].put = "ok"]
            /\ pc' = [pc EXCEPT ![r] = "findOneAndUpdate"]
            /\ tempFiles' = tempFiles \ {r}
            /\ UNCHANGED resp
       ELSE /\ ev' = [ev EXCEPT ![r].put = "fail"]
            /\ Fail(r, 500)
            /\ UNCHANGED <<s3, tempFiles>>
  /\ UNCHANGED <<req, doc, dbActivity, dbImages, initTokens>>

\* lines 54-66 and the catch of 104-109: put the object, remove the staging file
PutObject(r) ==
  /\ pc[r] = "putObject"
  /\ \E ok \in BOOLEAN :
       IF ok
       THEN /\ s3' = s3 \cup {ObjectKey(req[r])}
            /\ ev' = [ev EXCEPT ![r].put = "ok"]
            /\ pc' = [pc EXCEPT ![r] = "findOneAndUpdate"]
            /\ UNCHANGED resp
       ELSE /\ ev' = [ev EXCEPT ![r].put = "fail"]
            /\ Fail(r, 500)
            /\ UNCHANGED s3
  /\ tempFiles' = tempFiles \ {r}
  /\ UNCHANGED <<req, doc, dbActivity, dbImages, initTokens>>

\* lines 68-89 and the catch of 104-109: append the image to the batch record,
\* then take one token on the in-memory document
FindOneAndUpdate(r) ==
  /\ pc[r] = "findOneAndUpdate"
  /\ \E ok \in BOOLEAN :
       IF ok
       THEN /\ dbImages' = PushImage(dbImages, req[r].userId, req[r].batchId,
                                     [imageName |-> req[r].file, by |-> r])
            /\ ev' = [ev EXCEPT ![r].rec = "ok"]
            /\ doc' = [doc EXCEPT ![r] =
                         [UseTokens(@, TokensPerImage, req[r].batchId, r)
                            EXCEPT !.totalImageProcessed = @ + 1]]
            /\ pc' = [pc EXCEPT ![r] = "save"]
            /\ UNCHANGED resp
       ELSE /\ ev' = [ev EXCEPT ![r].rec = "fail"]
            /\ Fail(r, 500)
            /\ UNCHANGED <<dbImages, doc>>
  /\ UNCHANGED <<req, tempFiles, dbActivity, s3, initTokens>>

\* lines 90-109: userActivity.save() writes the modified paths of the
\* in-memory document, then the handler answers 200; a rejected save -> 500
Save(r) ==
  /\ pc[r] = "save"
  /\ \E ok \in BOOLEAN :
       IF ok
       THEN /\ dbActivity' =
                 [dbActivity EXCEPT ![req[r].userId] =
                    [@ EXCEPT !.availableTokens = doc[r].availableTokens,
                              !.totalImageProcessed = doc[r].totalImageProcessed,
                              !.tokenHistory = @ \o doc[r].pending]]
            /\ ev' = [ev EXCEPT ![r].debit = "ok"]
            /\ resp' = [resp EXCEPT ![r] = [status |-> 200,
                                            remainingTokens |-> doc[r].availableTokens]]
            /\ pc' = [pc EXCEPT ![r] = "done"]
       ELSE /\ ev' = [ev EXCEPT ![r].debit = "fail"]
            /\ Fail(r, 500)
            /\ UNCHANGED dbActivity
  /\ UNCHANGED <<req, doc, tempFiles, dbImages, s3, initTokens>>

UploadSingleImage(r) ==
  \/ Receive(r)
  \/ FindOne(r)
  \/ ProcessImage(r)
  \/ PutObject(r)
  \/ FindOneAndUpdate(r)
  \/ Save(r)

\* no batch is submitted
\* ------------------------------------------- the upload form (client)
\* bounds of the upload session
MaxCycles == 2
MaxSrvTokens == 2

\* the 100 file limit of handleFileChange, and the size of one request body
FileLimit == 100
Total == 200

VARIABLES ui, xhrRef, progressRef, capProgress, cyc, nCyc, srvTokens

cvars == <<ui, xhrRef, progressRef, capProgress, cyc, nCyc, srvTokens>>

\* the File objects the caller can select: two of them have the same name
Pool == {1, 2, 3, 4}
FileName(f) == <<"a.png", "a.png", "b.png", "notes.txt">>[((f - 1) % 4) + 1]
FileType(f) ==
  <<"image/png", "image/png", "image/png", "text/plain">>[((f - 1) % 4) + 1]

\* the image files of a selection made when the list is two short of the
\* limit
LimitPool == {FileLimit - 1, FileLimit + 1, FileLimit + 2}

\* the cycles of a session: at most MaxCycles start in the modelled window,
\* the last slot is for a request sent before the window opens
Cycles == 1..(MaxCycles + 1)
Earlier == MaxCycles + 1
NoXhr == 0
NullTokens == -1

\* the settings state: its default, and the value after the title slider
\* was moved
DefaultSettings ==
  [titleLength |-> 80, descriptionLength |-> 120, keywordCount |-> 45]
OtherSettings ==
  [titleLength |-> 60, descriptionLength |-> 120, keywordCount |-> 45]
SettingsChoices == {DefaultSettings, OtherSettings}

\* the values event.loaded takes in the progress events of one request
Loads == {100, Total}

CancelMsg == "Upload cancelled by user"
AuthMsg ==
  "Authentication failed: Your session has expired. Please log in again."
UnavailableMsg ==
  "Server unavailable. Please check your internet connection and try again later."
InvalidFormatMsg ==
  "Invalid response format from server. The response was received but could not be processed."
ImageErrorMsg == "Failed to generate metadata"

\* the messages handleFileUpload's promise rejects with, other than CancelMsg
TransportErrors == {AuthMsg, UnavailableMsg, InvalidFormatMsg}

\* error.includes("invalid token") || error.includes("Authentication")
IsAuthError(msg) == msg = AuthMsg
\* error.includes("Server unavailable")
IsUnavailableError(msg) == msg = UnavailableMsg

NoResponse ==
  [isNull |-> TRUE, batchId |-> 0, successfulImages |-> <<>>,
   remainingTokens |-> 0, settings |-> DefaultSettings]

\* no success toast of a regeneration was shown
NoToast == -1

NoCycle ==
  [st |-> "unused", regen |-> FALSE, sent |-> <<>>, capSucc |-> <<>>,
   cap |-> 0, batchId |-> 0, loaded |-> 0, first |-> TRUE,
   cancelled |-> FALSE, out |-> "none", settings |-> DefaultSettings,
   capFailed |-> <<>>, toast |-> NoToast]

\* Math.round(event.loaded / event.total * 100)
Percent(loaded) == (2 * 100 * loaded + Total) \div (2 * Total)

RECURSIVE FilterRange(_, _, _, _)
\* the elements of s at the indices lo..hi that are in keep, in order
FilterRange(s, keep, lo, hi) ==
  IF lo > hi THEN <<>>
  ELSE IF lo = hi THEN (IF lo \in keep THEN <<s[lo]>> ELSE <<>>)
  ELSE LET mid == (lo + hi) \div 2
       IN FilterRange(s, keep, lo, mid) \o FilterRange(s, keep, mid + 1, hi)

\* Array.prototype.filter over the indices of s kept in keep
SelectSeq2(s, keep) == FilterRange(s, keep, 1, Len(s))

\* the members of a set of files as an array, in the order of the picker
RECURSIVE AsArray(_)
AsArray(S) ==
  IF S = {} THEN <<>>
  ELSE LET m == CHOOSE x \in S : \A y \in S : x <= y
       IN <<m>> \o AsArray(S \ {m})

Range(s) == {s[k] : k \in 1..Len(s)}

hasInsufficientTokens ==
  IF ui.tokens = NullTokens \/ Len(ui.files) = 0 THEN FALSE
  ELSE ui.tokens < Len(ui.files)

uploadStatus ==
  IF ui.uploadResponse.isNull THEN "none"
  ELSE IF Len(ui.failedUploads) = Len(ui.files) THEN "allFailed"
  ELSE IF Len(ui.failedUploads) > 0 THEN "partialSuccess"
  ELSE "allSuccess"

\* the page behind the dialogs takes input only when no dialog is open
PageInteractive == ~ui.showModal /\ ~ui.inSufficientTokenModal

\* the caller edits the file list only while no request is outstanding
Editable ==
  /\ PageInteractive
  /\ \A c \in Cycles : cyc[c].st \in {"unused", "done"}

\* the "Regenerate failed" button of the result dialog is rendered
RegenerateOffered ==
  /\ ui.showModal
  /\ ~ui.uploadInProgress
  /\ Len(ui.failedUploads) > 0
  /\ \A k \in 1..Len(ui.failedUploads) :
       /\ ~IsAuthError(ui.failedUploads[k].error)
       /\ ~IsUnavailableError(ui.failedUploads[k].error)

ClientInit ==
  /\ ui = [files |-> <<>>, tokens |-> NullTokens, isPending |-> TRUE,
           loading |-> FALSE, uploadingStarted |-> FALSE,
           uploadInProgress |-> FALSE, isRegenerating |-> FALSE,
           showModal |-> FALSE, inSufficientTokenModal |-> FALSE,
           progress |-> 0, processedCount |-> 0,
           uploadResponse |-> NoResponse, failedUploads |-> <<>>,
           failedFiles |-> <<>>, settings |-> DefaultSettings]
  /\ xhrRef = NoXhr
  /\ progressRef = 0
  /\ capProgress = 0
  /\ cyc = [c \in Cycles |-> NoCycle]
  /\ nCyc = 0
  /\ srvTokens = MaxSrvTokens

\* fetchUserTokens, started on mount: the balance is stored, or the fetch
\* fails and tokens stays null
FetchUserTokens(ok) ==
  /\ ui.isPending
  /\ ui' = [ui EXCEPT !.isPending = FALSE,
                      !.tokens = IF ok THEN srvTokens ELSE @]
  /\ UNCHANGED <<xhrRef, progressRef, capProgress, cyc, nCyc, srvTokens>>

\* handleFileChange without the check of the file limit
HandleFileChangeNoLimit(sel) ==
  /\ Editable
  /\ LET newFiles == AsArray({f \in sel : FileType(f) \in {"image/png"}})
     IN /\ newFiles # <<>>
        /\ \A f \in Range(newFiles), g \in Range(ui.files) : g < f
        /\ ui' = [ui EXCEPT !.files = @ \o newFiles]
        /\ capProgress' = ui.progress
  /\ UNCHANGED <<xhrRef, progressRef, cyc, nCyc, srvTokens>>

\* handleFileChange / handleDrop with the selection sel
HandleFileChange(sel) ==
  /\ Editable
  /\ LET newFiles == AsArray({f \in sel : FileType(f) \in {"image/png"}})
     IN /\ newFiles # <<>>
        /\ \A f \in Range(newFiles), g \in Range(ui.files) : g < f
        /\ IF Len(ui.files) + Len(newFiles) > FileLimit
             THEN UNCHANGED <<ui, capProgress>>
             ELSE /\ ui' = [ui EXCEPT !.files = @ \o newFiles]
                  /\ capProgress' = ui.progress
  /\ UNCHANGED <<xhrRef, progressRef, cyc, nCyc, srvTokens>>

\* removeFile(index)
RemoveFile(i) ==
  /\ Editable
  /\ i \in 1..Len(ui.files)
  /\ ui' = [ui EXCEPT !.files = SelectSeq2(@, (1..Len(@)) \ {i})]
  /\ capProgress' = ui.progress
  /\ UNCHANGED <<xhrRef, progressRef, cyc, nCyc, srvTokens>>

\* clearAllFiles
ClearAllFiles ==
  /\ Editable
  /\ ui.files # <<>>
  /\ ui' = [ui EXCEPT !.files = <<>>]
  /\ capProgress' = ui.progress
  /\ UNCHANGED <<xhrRef, progressRef, cyc, nCyc, srvTokens>>

\* the "Log In Again" link of the result dialog is rendered
LogInOffered ==
  /\ ui.showModal
  /\ ~ui.uploadInProgress
  /\ \E k \in 1..Len(ui.failedUploads) : IsAuthError(ui.failedUploads[k].error)

\* a slider of the settings tab is moved
SetSettings(v) ==
  /\ PageInteractive
  /\ v # ui.settings
  /\ ui' = [ui EXCEPT !.settings = v]
  /\ UNCHANGED <<xhrRef, progressRef, capProgress, cyc, nCyc, srvTokens>>

\* the record of a cycle that is over, with the way it ended
DoneCycle(out) ==
  [NoCycle EXCEPT !.st = "done", !.out = out]

\* handleSubmit, up to the first await of handleFileUpload; the submit button
\* is disabled while files is empty, loading or isPending
HandleSubmit ==
  /\ PageInteractive
  /\ ~ui.loading
  /\ ~ui.isPending
  /\ Len(ui.files) # 0
  /\ IF Len(ui.files) = 0
       THEN UNCHANGED <<ui, cyc, nCyc, capProgress>>
       ELSE IF hasInsufficientTokens
         THEN /\ ui' = [ui EXCEPT !.inSufficientTokenModal = TRUE]
              /\ UNCHANGED <<cyc, nCyc, capProgress>>
         ELSE /\ nCyc < MaxCycles
              /\ ui' = [ui EXCEPT !.loading = TRUE,
                                  !.uploadingStarted = TRUE,
                                  !.showModal = TRUE,
                                  !.processedCount = 0,
                                  !.progress = 0,
                                  !.failedUploads = <<>>,
                                  !.failedFiles = <<>>,
                                  !.uploadInProgress = TRUE]
              /\ nCyc' = nCyc + 1
              /\ cyc' = [cyc EXCEPT ![nCyc + 1] =
                           [NoCycle EXCEPT !.st = "await",
                                           !.sent = ui.files,
                                           !.settings = ui.settings,
                                           !.cap = capProgress]]
              /\ capProgress' = 0
  /\ UNCHANGED <<xhrRef, progressRef, srvTokens>>

\* closing the insufficient-tokens dialog
CloseInsufficientModal ==
  /\ ui.inSufficientTokenModal
  /\ ui' = [ui EXCEPT !.inSufficientTokenModal = FALSE]
  /\ UNCHANGED <<xhrRef, progressRef, capProgress, cyc, nCyc, srvTokens>>

\* regenerateFailedFiles, up to the first await of handleFileUpload
RegenerateFailedFiles ==
  /\ RegenerateOffered
  /\ ~ui.isRegenerating
  /\ IF Len(ui.failedFiles) = 0
       THEN UNCHANGED <<ui, cyc, nCyc>>
       ELSE /\ nCyc < MaxCycles
            /\ ui' = [ui EXCEPT !.isRegenerating = TRUE,
                                !.loading = TRUE,
                                !.uploadingStarted = TRUE,
                                !.uploadInProgress = TRUE,
                                !.progress = 0]
            /\ nCyc' = nCyc + 1
            /\ cyc' = [cyc EXCEPT ![nCyc + 1] =
                         [NoCycle EXCEPT
                            !.st = "await",
                            !.regen = TRUE,
                            !.sent = ui.failedFiles,
                            !.capFailed = ui.failedFiles,
                            !.capSucc = ui.uploadResponse.successfulImages,
                            !.batchId = ui.uploadResponse.batchId,
                            !.settings = ui.settings,
                            !.cap = capProgress]]
  /\ UNCHANGED <<xhrRef, progressRef, capProgress, srvTokens>>

\* handleFileUpload after getBaseApi and getAccessToken: the request is
\* created, stored in xhrRef, the frame loop starts and the body is sent
SendRequest(c) ==
  /\ cyc[c].st = "await"
  /\ xhrRef' = c
  /\ cyc' = [cyc EXCEPT ![c].st = "sent"]
  /\ UNCHANGED <<ui, progressRef, capProgress, nCyc, srvTokens>>

\* xhr.upload.onprogress: an event is used when it is the first one or comes
\* more than 300 ms after the last one used
UploadProgress(c, l, late) ==
  /\ cyc[c].st = "sent"
  /\ l \in Loads
  /\ l > cyc[c].loaded
  /\ IF cyc[c].first \/ late
       THEN /\ progressRef' = Percent(l)
            /\ cyc' = [cyc EXCEPT ![c].loaded = l, ![c].first = FALSE]
       ELSE /\ cyc' = [cyc EXCEPT ![c].loaded = l]
            /\ UNCHANGED progressRef
  /\ UNCHANGED <<ui, xhrRef, capProgress, nCyc, srvTokens>>

\* updateProgressWithRAF: one animation frame of the cycle's loop, which
\* compares the ref with the progress its closure captured
UpdateProgressWithRAF(c) ==
  /\ cyc[c].st \in {"sent", "timedout"}
  /\ progressRef # cyc[c].cap
  /\ ui.progress # progressRef
  /\ ui' = [ui EXCEPT !.progress = progressRef]
  /\ UNCHANGED <<xhrRef, progressRef, capProgress, cyc, nCyc, srvTokens>>

\* the failedImages of a response: the files of sent not in okset, by name
FailedImages(sent, okset) ==
  LET failed == SelectSeq2(sent, (1..Len(sent)) \ okset)
  IN [k \in 1..Len(failed) |->
        [filename |-> FileName(failed[k]), error |-> ImageErrorMsg]]

\* filesToRegenerate.filter(file => failedImages.some(failed =>
\*   failed.filename === file.name))
NewFailedFiles(filesToRegenerate, failedImages) ==
  SelectSeq2(filesToRegenerate,
             {k \in 1..Len(filesToRegenerate) :
                \E j \in 1..Len(failedImages) :
                  failedImages[j].filename = FileName(filesToRegenerate[k])})

\* the count of the success toast of regenerateFailedFiles, from the copy it
\* sent and the failedFiles of the render that created the callback
RegeneratedCount(regenerateFiles, failedFiles) ==
  Len(regenerateFiles) - Len(failedFiles)

\* the finally blocks of handleSubmit and regenerateFailedFiles
Finally(u, c) ==
  [u EXCEPT !.loading = FALSE,
            !.uploadingStarted = FALSE,
            !.uploadInProgress = FALSE,
            !.isRegenerating = IF cyc[c].regen THEN FALSE ELSE @]

\* xhr.onload with a 2xx status and a BatchResult body, and the rest of
\* handleFileUpload and of its caller; okset are the positions that succeeded
LoadResult(c, okset) ==
  /\ cyc[c].st = "sent"
  /\ cyc[c].loaded = Total
  /\ okset \subseteq 1..Len(cyc[c].sent)
  /\ Cardinality(okset) <= srvTokens
  /\ LET newSuccessfulImages == SelectSeq2(cyc[c].sent, okset)
         failedImages == FailedImages(cyc[c].sent, okset)
         response ==
           [isNull |-> FALSE,
            batchId |-> IF cyc[c].batchId = 0 THEN c ELSE cyc[c].batchId,
            successfulImages |-> newSuccessfulImages,
            remainingTokens |-> srvTokens - Cardinality(okset),
            settings |-> cyc[c].settings]
         merged ==
           [response EXCEPT
              !.successfulImages = cyc[c].capSucc \o newSuccessfulImages]
         u1 == [ui EXCEPT
                  !.progress = 100,
                  !.uploadResponse = IF cyc[c].regen THEN merged ELSE response,
                  !.processedCount =
                    IF cyc[c].regen
                      THEN Len(cyc[c].capSucc) + Len(newSuccessfulImages)
                      ELSE Len(newSuccessfulImages),
                  !.failedUploads = failedImages,
                  !.failedFiles = NewFailedFiles(cyc[c].sent, failedImages)]
     IN /\ ui' = Finally(u1, c)
        /\ srvTokens' = srvTokens - Cardinality(okset)
  /\ progressRef' = 100
  /\ capProgress' = 100
  /\ xhrRef' = NoXhr
  /\ cyc' = [cyc EXCEPT ![c] =
               [DoneCycle("result") EXCEPT
                  !.toast = IF cyc[c].regen
                              THEN RegeneratedCount(cyc[c].sent, cyc[c].capFailed)
                              ELSE NoToast]]
  /\ UNCHANGED nCyc

\* Rejected with every message handled like a cancellation
RejectedSilently(c, msg) == Finally(ui, c)

\* Rejected with a cancellation recorded like any other error
RejectedRecordsCancel(c, msg) ==
  LET u1 == [ui EXCEPT !.failedUploads =
               <<[filename |-> IF cyc[c].regen THEN "Batch regeneration"
                               ELSE "Batch upload",
                  error |-> msg]>>]
      u2 == IF cyc[c].regen THEN [u1 EXCEPT !.failedFiles = cyc[c].sent] ELSE u1
  IN Finally(u2, c)

\* the catch blocks of handleFileUpload and of its caller for the message msg
Rejected(c, msg) ==
  LET u1 == IF msg # CancelMsg
              THEN [ui EXCEPT !.failedUploads =
                      <<[filename |-> IF cyc[c].regen THEN "Batch regeneration"
                                      ELSE "Batch upload",
                         error |-> msg]>>]
              ELSE ui
      u2 == IF cyc[c].regen /\ msg # CancelMsg
              THEN [u1 EXCEPT !.failedFiles = cyc[c].sent]
              ELSE u1
  IN Finally(u2, c)

\* xhr.onload with an unreadable body or a non-2xx status, and xhr.onerror
LoadError(c, msg) ==
  /\ cyc[c].st = "sent"
  /\ msg \in TransportErrors
  /\ ui' = Rejected(c, msg)
  /\ capProgress' = IF cyc[c].regen THEN ui.progress ELSE capProgress
  /\ xhrRef' = NoXhr
  /\ cyc' = [cyc EXCEPT ![c] = DoneCycle("error")]
  /\ UNCHANGED <<progressRef, nCyc, srvTokens>>

\* xhr.timeout expires: the request is over and no handler is registered
Timeout(c) ==
  /\ cyc[c].st = "sent"
  /\ cyc' = [cyc EXCEPT ![c].st = "timedout"]
  /\ UNCHANGED <<ui, xhrRef, progressRef, capProgress, nCyc, srvTokens>>

\* cancelUpload, from the confirmation dialog of the progress dialog, with
\* xhr.onabort and the catch and finally blocks it leads to
CancelUpload ==
  /\ ui.showModal
  /\ LET aborts == xhrRef # NoXhr /\ cyc[xhrRef].st = "sent"
         u1 == IF aborts THEN Rejected(xhrRef, CancelMsg) ELSE ui
     IN /\ ui' = [u1 EXCEPT !.showModal = FALSE,
                            !.loading = FALSE,
                            !.uploadingStarted = FALSE,
                            !.uploadInProgress = FALSE]
        /\ cyc' = [c \in Cycles |->
                     IF aborts /\ c = xhrRef
                       THEN DoneCycle("abort")
                     ELSE IF cyc[c].st \in {"await", "sent"}
                       THEN [cyc[c] EXCEPT !.cancelled = TRUE]
                     ELSE cyc[c]]
  /\ xhrRef' = NoXhr
  /\ UNCHANGED <<progressRef, capProgress, nCyc, srvTokens>>

\* handleGenerateMore, the "Process More Images" button of the result dialog
HandleGenerateMore ==
  /\ ui.showModal
  /\ ~ui.uploadInProgress
  /\ ui' = [ui EXCEPT !.files = <<>>,
                      !.showModal = FALSE,
                      !.uploadResponse = NoResponse,
                      !.processedCount = 0,
                      !.progress = 0,
                      !.failedUploads = <<>>,
                      !.failedFiles = <<>>]
  /\ capProgress' = 0
  /\ UNCHANGED <<xhrRef, progressRef, cyc, nCyc, srvTokens>>

\* onOpenChange(false) of the result dialog when no upload is in progress
CloseModal ==
  /\ ui.showModal
  /\ ~ui.uploadInProgress
  /\ ui' = [ui EXCEPT !.showModal = FALSE]
  /\ UNCHANGED <<xhrRef, progressRef, capProgress, cyc, nCyc, srvTokens>>

\* the "Try Again Later" button shown for a "Server unavailable" error
TryAgainLater ==
  /\ ui.showModal
  /\ ~ui.uploadInProgress
  /\ \E k \in 1..Len(ui.failedUploads) :
       IsUnavailableError(ui.failedUploads[k].error)
  /\ ui' = [ui EXCEPT !.showModal = FALSE, !.failedUploads = <<>>]
  /\ UNCHANGED <<xhrRef, progressRef, capProgress, cyc, nCyc, srvTokens>>

\* the events of a mounted form whose token fetch is over
SessionNext ==
  \/ \E sel \in SUBSET Pool : HandleFileChange(sel)
  \/ \E i \in 1..Cardinality(Pool) : RemoveFile(i)
  \/ ClearAllFiles
  \/ \E v \in SettingsChoices : SetSettings(v)
  \/ HandleSubmit
  \/ CloseInsufficientModal
  \/ RegenerateFailedFiles
  \/ \E c \in Cycles : SendRequest(c)
  \/ \E c \in Cycles, l \in Loads, late \in BOOLEAN : UploadProgress(c, l, late)
  \/ \E c \in Cycles : UpdateProgressWithRAF(c)
  \/ \E c \in Cycles : \E okset \in SUBSET (1..Cardinality(Pool)) :
       LoadResult(c, okset)
  \/ \E c \in Cycles, msg \in TransportErrors : LoadError(c, msg)
  \/ \E c \in Cycles : Timeout(c)
  \/ CancelUpload
  \/ HandleGenerateMore
  \/ CloseModal
  \/ TryAgainLater

ClientNext ==
  \/ \E ok \in BOOLEAN : FetchUserTokens(ok)
  \/ SessionNext

\* the form after a first submission of a.png and b.png whose result has
\* one success and one failure: the result dialog is open
ResultInit ==
  /\ ui = [files |-> <<1, 3>>, tokens |-> MaxSrvTokens, isPending |-> FALSE,
           loading |-> FALSE, uploadingStarted |-> FALSE,
           uploadInProgress |-> FALSE, isRegenerating |-> FALSE,
           showModal |-> TRUE, inSufficientTokenModal |-> FALSE,
           progress |-> 100, processedCount |-> 1,
           uploadResponse |->
             [isNull |-> FALSE, batchId |-> MaxCycles + 1,
              successfulImages |-> <<1>>,
              remainingTokens |-> MaxSrvTokens - 1,
              settings |-> DefaultSettings],
           failedUploads |->
             <<[filename |-> FileName(3), error |-> ImageErrorMsg]>>,
           failedFiles |-> <<3>>, settings |-> DefaultSettings]
  /\ xhrRef = NoXhr
  /\ progressRef = 100
  /\ capProgress = 100
  /\ cyc = [c \in Cycles |-> NoCycle]
  /\ nCyc = 0
  /\ srvTokens = MaxSrvTokens - 1

\* the form of ResultInit after these events: Retry Failed Files was clicked
\* and the upload cancelled before the request existed, the request of b.png
\* was sent all the same and is still in flight; the caller then submitted
\* again, got a result, clicked Process More Images and selected a file
BackgroundInit ==
  /\ ui = [files |-> <<2>>, tokens |-> MaxSrvTokens, isPending |-> FALSE,
           loading |-> FALSE, uploadingStarted |-> FALSE,
           uploadInProgress |-> FALSE, isRegenerating |-> TRUE,
           showModal |-> FALSE, inSufficientTokenModal |-> FALSE,
           progress |-> 0, processedCount |-> 0,
           uploadResponse |-> NoResponse, failedUploads |-> <<>>,
           failedFiles |-> <<>>, settings |-> DefaultSettings]
  /\ xhrRef = NoXhr
  /\ progressRef = 100
  /\ capProgress = 0
  /\ cyc = [c \in Cycles |->
              IF c = Earlier
                THEN [NoCycle EXCEPT !.st = "sent", !.regen = TRUE,
                                     !.sent = <<3>>, !.capFailed = <<3>>,
                                     !.capSucc = <<1>>,
                                     !.cap = 100, !.batchId = MaxCycles + 1,
                                     !.cancelled = TRUE]
                ELSE NoCycle]
  /\ nCyc = 0
  /\ srvTokens = MaxSrvTokens - 1

\* a mounted form of a user with FileLimit tokens who selected all but two
\* of the files the limit allows
LimitInit ==
  /\ ui = [files |-> [k \in 1..(FileLimit - 2) |-> k], tokens |-> FileLimit,
           isPending |-> FALSE,
           loading |-> FALSE, uploadingStarted |-> FALSE,
           uploadInProgress |-> FALSE, isRegenerating |-> FALSE,
           showModal |-> FALSE, inSufficientTokenModal |-> FALSE,
           progress |-> 0, processedCount |-> 0,
           uploadResponse |-> NoResponse, failedUploads |-> <<>>,
           failedFiles |-> <<>>, settings |-> DefaultSettings]
  /\ xhrRef = NoXhr
  /\ progressRef = 0
  /\ capProgress = 0
  /\ cyc = [c \in Cycles |-> NoCycle]
  /\ nCyc = 0
  /\ srvTokens = MaxSrvTokens

\* the events of that form: selections, submissions and their requests
LimitNext ==
  \/ \E sel \in SUBSET LimitPool : HandleFileChange(sel)
  \/ ClearAllFiles
  \/ HandleSubmit
  \/ RegenerateFailedFiles
  \/ \E c \in Cycles : SendRequest(c)
  \/ \E c \in Cycles, l \in Loads, late \in BOOLEAN : UploadProgress(c, l, late)
  \/ \E c \in Cycles : \E okset \in SUBSET (1..Cardinality(Pool)) :
       LoadResult(c, okset)
  \/ \E c \in Cycles, msg \in TransportErrors : LoadError(c, msg)
  \/ CancelUpload
  \/ CloseModal

ClientIdle ==
  /\ ui = [files |-> <<>>]
  /\ xhrRef = NoXhr
  /\ progressRef = 0
  /\ capProgress = 0
  /\ cyc = <<>>
  /\ nCyc = 0
  /\ srvTokens = 0

BatchIdle ==
  /\ bpc = "idle"
  /\ bPass = 0
  /\ bKind = <<>>
  /\ bImages = <<>>
  /\ bStage = <<>>
  /\ bReason = <<>>
  /\ bCalls = <<>>
  /\ bWrite = 1
  /\ bShort = -1
  /\ bBalance = 0
  /\ bLedger = <<>>
  /\ bStart = 0
  /\ bLedgerErr = FALSE
  /\ bSucc = <<>>
  /\ bFail = <<>>
  /\ bStore = {}
  /\ bRecord = <<>>
  /\ bPrev = {}
  /\ bOverlap = FALSE

\* no request reaches the single-image endpoint
ServerIdle ==
  /\ pc = [r \in Req |-> "idle"]
  /\ req = [r \in Req |-> NoReq]
  /\ doc = [r \in Req |-> NoLocalDoc]
  /\ tempFiles = {}
  /\ ev = [r \in Req |-> NoEv]
  /\ resp = [r \in Req |-> NoResp]
  /\ initTokens = [u \in Users |-> 0]
  /\ dbActivity = [u \in Users |-> NoActivity]
  /\ dbImages = <<>>
  /\ s3 = {}

\* ============================================== deleteImage (the server)
\* single-image.controller.js, deleteImage: requests that remove one image
\* of a batch record and its stored object, run concurrently with the
\* requests of uploadSingleImage against the same collections and bucket.
NumDel == 1
Del == 1..NumDel

\* the _id of the image and of the batch record present before any request
FirstImageId == 0
\* an _id no image has
UnknownImageId == 9
NoImageId == -1
UnknownBatchId == "b0"

VARIABLES
  del          \* each deleteImage request: position, query, what it read, response

dvars == <<del>>

NoUpdatedBatch == [isNull |-> TRUE, id |-> -1, len |-> 0]

NoDel ==
  [pc |-> "idle", userId |-> "", batchId |-> NoBatchId, imageId |-> NoImageId,
   deletedImage |-> NoFile, updatedBatch |-> NoUpdatedBatch,
   obj |-> "none", status |-> 0]

\* no request reaches the delete endpoint
DeleteIdle == del = [d \in Del |-> NoDel]

\* one user with a balance and a batch b1 of one or two stored images
DeleteInit ==
  /\ pc = [r \in Req |-> "idle"]
  /\ req = [r \in Req |-> NoReq]
  /\ doc = [r \in Req |-> NoLocalDoc]
  /\ tempFiles = {}
  /\ ev = [r \in Req |-> NoEv]
  /\ resp = [r \in Req |-> NoResp]
  /\ initTokens = [u \in Users |-> IF u = "u1" THEN MaxTokens ELSE 0]
  /\ dbActivity =
       [u \in Users |->
          IF u = "u1"
          THEN [exists |-> TRUE, availableTokens |-> MaxTokens,
                totalImageProcessed |-> 0,
                tokenHistory |-> InitialHistory(MaxTokens)]
          ELSE NoActivity]
  /\ \E two \in BOOLEAN :
       /\ dbImages =
            <<[userId |-> "u1", batchId |-> "b1", id |-> FirstImageId,
               images |->
                 IF two
                 THEN <<[imageName |-> "f1", by |-> FirstImageId],
                        [imageName |-> "f2", by |-> FirstImageId - 1]>>
                 ELSE <<[imageName |-> "f1", by |-> FirstImageId]>>]>>
       /\ s3 = {<<"uploads", "u1", "b1", "f1">>} \cup
               (IF two THEN {<<"uploads", "u1", "b1", "f2">>} ELSE {})
  /\ del = [d \in Del |-> NoDel]

DeleteFail(d, status) ==
  del' = [del EXCEPT ![d].pc = "done", ![d].status = status]

\* lines 113-118: the query is read; imageId or batchId missing -> 400
DeleteReceive(d) ==
  /\ del[d].pc = "idle"
  /\ \E u \in Users,
        i \in {FirstImageId, UnknownImageId, NoImageId},
        b \in {"b1", UnknownBatchId, NoBatchId} :
       IF i = NoImageId \/ b = NoBatchId
       THEN DeleteFail(d, 400)
       ELSE del' = [del EXCEPT ![d].pc = "findOne", ![d].userId = u,
                               ![d].batchId = b, ![d].imageId = i]
  /\ UNCHANGED <<svars>>

\* batchBeforeUpdate.images.find(img => img._id.toString() === imageId)
FindImage(images, imageId) ==
  LET hits == {j \in 1..Len(images) : images[j].by = imageId}
  IN IF hits = {} THEN NoFile
     ELSE images[CHOOSE j \in hits : \A k \in hits : j <= k].imageName

\* lines 121-134: the batch record and the image are looked up; none -> 404
DeleteFindOne(d) ==
  /\ del[d].pc = "findOne"
  /\ LET found == RecordsOf(dbImages, del[d].userId, del[d].batchId) IN
       IF found = {}
       THEN DeleteFail(d, 404)
       ELSE LET batchBeforeUpdate ==
                  dbImages[CHOOSE i \in found : \A k \in found : i <= k]
                deletedImage ==
                  FindImage(batchBeforeUpdate.images, del[d].imageId)
            IN IF deletedImage = NoFile
               THEN DeleteFail(d, 404)
               ELSE del' = [del EXCEPT ![d].pc = "findOneAndUpdate",
                                       ![d].deletedImage = deletedImage]
  /\ UNCHANGED <<svars>>

\* { $pull: { images: { _id: imageId } } } on the first record of u and b
PullImage(recs, u, b, imageId) ==
  LET found == RecordsOf(recs, u, b)
      first == CHOOSE i \in found : \A k \in found : i <= k
  IN IF found = {} THEN recs
     ELSE [recs EXCEPT ![first].images =
             SelectSeq(@, LAMBDA img : img.by # imageId)]

\* lines 137-141: the entry is pulled from the record and the updated record
\* returned (null when there is none); a rejected update -> 500
DeleteFindOneAndUpdate(d) ==
  /\ del[d].pc = "findOneAndUpdate"
  /\ \E ok \in BOOLEAN :
       IF ok
       THEN LET new == PullImage(dbImages, del[d].userId, del[d].batchId,
                                 del[d].imageId)
                found == RecordsOf(new, del[d].userId, del[d].batchId)
                first == CHOOSE i \in found : \A k \in found : i <= k
            IN /\ dbImages' = new
               /\ del' = [del EXCEPT
                            ![d].pc = "deleteObject",
                            ![d].updatedBatch =
                              IF found = {} THEN NoUpdatedBatch
                              ELSE [isNull |-> FALSE, id |-> new[first].id,
                                    len |-> Len(new[first].images)]]
       ELSE /\ DeleteFail(d, 500)
            /\ UNCHANGED dbImages
  /\ UNCHANGED <<pc, req, doc, tempFiles, ev, resp, dbActivity, s3, initTokens>>

\* lines 143-150 and the catch of 157-159: the object is deleted from the
\* bucket; a rejected delete, or reading images of a null updatedBatch -> 500
DeleteObject(d) ==
  /\ del[d].pc = "deleteObject"
  /\ \E ok \in BOOLEAN :
       IF ok
       THEN /\ s3' = s3 \ {<<"uploads", del[d].userId, del[d].batchId,
                             del[d].deletedImage>>}
            /\ del' = [del EXCEPT
                         ![d].obj = "ok",
                         ![d].pc = IF del[d].updatedBatch.isNull THEN "done"
                                   ELSE IF del[d].updatedBatch.len = 0
                                     THEN "deleteOne"
                                   ELSE "done",
                         ![d].status = IF del[d].updatedBatch.isNull THEN 500
                                       ELSE IF del[d].updatedBatch.len = 0
                                         THEN 0
                                       ELSE 200]
       ELSE /\ del' = [del EXCEPT ![d].obj = "fail", ![d].pc = "done",
                                  ![d].status = 500]
            /\ UNCHANGED s3
  /\ UNCHANGED <<pc, req, doc, tempFiles, ev, resp, dbActivity, dbImages,
                 initTokens>>

\* ImagesModel.deleteOne({ _id })
DeleteRecord(recs, id) ==
  SelectSeq(recs, LAMBDA rec : rec.id # id)

\* lines 152-159: the record that was left without images is deleted by its
\* _id, then the handler answers 200; a rejected deleteOne -> 500
DeleteOne(d) ==
  /\ del[d].pc = "deleteOne"
  /\ \E ok \in BOOLEAN :
       IF ok
       THEN /\ dbImages' = DeleteRecord(dbImages, del[d].updatedBatch.id)
            /\ del' = [del EXCEPT ![d].pc = "done", ![d].status = 200]
       ELSE /\ DeleteFail(d, 500)
            /\ UNCHANGED dbImages
  /\ UNCHANGED <<pc, req, doc, tempFiles, ev, resp, dbActivity, s3, initTokens>>

deleteImage(d) ==
  \/ DeleteReceive(d)
  \/ DeleteFindOne(d)
  \/ DeleteFindOneAndUpdate(d)
  \/ DeleteObject(d)
  \/ DeleteOne(d)

\* the requests of the delete endpoint and of the upload endpoint
DeleteNext ==
  \/ (\E d \in Del : deleteImage(d))
  \/ (\E r \in Req : UploadSingleImage(r)) /\ UNCHANGED dvars

\* ===================================================== the dashboard page
\* Dashboard: fetchDashboardData with its retries, started by the effect
\* that runs on mount and whenever error changes, and by the online event.
MaxCalls == 3
Calls == 1..MaxCalls

\* retryCount < 3
MaxRetries == 3

VARIABLES
  dash,        \* the page: isLoading, error, data, effect to run, the error
               \* the registered online handler sees
  chain,       \* each call of fetchDashboardData() with the retries it led to
  nCall        \* calls made so far

fvars == <<dash, chain, nCall>>

NoError == "null"

FetchRejected == [typeError |-> TRUE, message |-> "Failed to fetch"]

NoFailure == [typeError |-> FALSE, message |-> NoError]

\* what an attempt can throw: the error and whether it is a TypeError
Failures ==
  { FetchRejected,
    [typeError |-> FALSE,
     message |-> "Authentication failed. Please log in again."],
    [typeError |-> FALSE,
     message |-> "Your session has expired. Please log in again."],
    [typeError |-> FALSE,
     message |-> "Server error. Please try again later."],
    [typeError |-> FALSE, message |-> "Unexpected end of JSON input"],
    [typeError |-> FALSE, message |-> "Failed to fetch dashboard data"],
    [typeError |-> FALSE, message |-> "A network error occurred"] }

\* errorMessage.includes("network")
IncludesNetwork(message) == message = "A network error occurred"

\* error instanceof TypeError || errorMessage.includes("network")
IsNetworkError(e) == e.typeError \/ IncludesNetwork(e.message)

RECURSIVE Pow2(_)
Pow2(n) == IF n = 0 THEN 1 ELSE 2 * Pow2(n - 1)

\* a delay that grows by one second per retry
RetryDelayLinear(retryCount) == (retryCount + 1) * 1000

\* Math.pow(2, retryCount) * 1000
RetryDelay(retryCount) == Pow2(retryCount) * 1000

NoChain ==
  [st |-> "unused", retryCount |-> 0, delays |-> <<>>, last |-> NoFailure]

\* no dashboard is mounted
DashboardIdle ==
  /\ dash = [isLoading |-> FALSE]
  /\ chain = <<>>
  /\ nCall = 0

\* the page as mounted: the effect has not run yet
DashboardInit ==
  /\ dash = [isLoading |-> TRUE, error |-> NoError, data |-> FALSE,
             effect |-> TRUE, captured |-> NoError]
  /\ chain = [k \in Calls |-> NoChain]
  /\ nCall = 0

\* the start of an attempt: setIsLoading(true); setError(null)
StartAttempt(d) ==
  [d EXCEPT !.isLoading = TRUE,
            !.error = NoError,
            !.effect = IF d.error # NoError THEN TRUE ELSE @]

\* the effect of [fetchDashboardData, error] runs: fetchDashboardData()
RunEffect ==
  /\ dash.effect
  /\ nCall < MaxCalls
  /\ nCall' = nCall + 1
  /\ chain' = [chain EXCEPT ![nCall + 1].st = "running"]
  /\ dash' = [StartAttempt(dash) EXCEPT
                !.effect = dash.error # NoError,
                !.captured = dash.error]

\* handleOnline, as registered by the last run of the effect: the connection
\* is back and the error of that render is not null
HandleOnline ==
  /\ dash.captured # NoError
  /\ nCall < MaxCalls
  /\ nCall' = nCall + 1
  /\ chain' = [chain EXCEPT ![nCall + 1].st = "running"]
  /\ dash' = StartAttempt(dash)

\* the attempt gets the data: setData, then the finally block
AttemptSucceeds(k) ==
  /\ chain[k].st = "running"
  /\ chain' = [chain EXCEPT ![k].st = "ended"]
  /\ dash' = [dash EXCEPT !.data = TRUE, !.isLoading = FALSE]
  /\ UNCHANGED nCall

\* the attempt throws e: the catch block, with the retry it may schedule,
\* then the finally block
AttemptFails(k, e) ==
  /\ chain[k].st = "running"
  /\ e \in Failures
  /\ LET retries == chain[k].retryCount < MaxRetries /\ IsNetworkError(e)
     IN chain' = [chain EXCEPT
                    ![k].st = IF retries THEN "waiting" ELSE "ended",
                    ![k].last = e,
                    ![k].delays =
                      IF retries
                        THEN Append(@, RetryDelay(chain[k].retryCount))
                        ELSE @]
  /\ dash' = [dash EXCEPT !.error = e.message,
                          !.isLoading = FALSE,
                          !.effect = IF dash.error # e.message THEN TRUE ELSE @]
  /\ UNCHANGED nCall

\* the timer of a retry fires: fetchDashboardData(retryCount + 1)
RetryFires(k) ==
  /\ chain[k].st = "waiting"
  /\ chain' = [chain EXCEPT ![k].st = "running", ![k].retryCount = @ + 1]
  /\ dash' = StartAttempt(dash)
  /\ UNCHANGED nCall

DashboardNext ==
  \/ RunEffect
  \/ HandleOnline
  \/ \E k \in Calls : AttemptSucceeds(k)
  \/ \E k \in Calls, e \in Failures : AttemptFails(k, e)
  \/ \E k \in Calls : RetryFires(k)

vars == <<svars, bvars, cvars, dvars, fvars>>

\* the requests of the single-image endpoint
Init == ServerInit /\ BatchIdle /\ ClientIdle /\ DeleteIdle /\ DashboardIdle

Next == (\E r \in Req : UploadSingleImage(r)) /\ UNCHANGED <<bvars, cvars, dvars, fvars>>

Spec == Init /\ [][Next]_vars

\* one batch and its regenerations
BatchSpecInit == ServerIdle /\ BatchInit /\ ClientIdle /\ DeleteIdle /\ DashboardIdle

BatchSpecNext == BatchNext /\ UNCHANGED <<svars, cvars, dvars, fvars>>

BatchSpec == BatchSpecInit /\ [][BatchSpecNext]_vars

\* one upload form, from mount on
ClientSpecInit == ServerIdle /\ BatchIdle /\ ClientInit /\ DeleteIdle /\ DashboardIdle

ClientSpecNext == ClientNext /\ UNCHANGED <<svars, bvars, dvars, fvars>>

ClientSpec == ClientSpecInit /\ [][ClientSpecNext]_vars

\* the same form, from the result of a first submission on
RegenerationSpecInit == ServerIdle /\ BatchIdle /\ ResultInit /\ DeleteIdle /\ DashboardIdle

RegenerationSpecNext == SessionNext /\ UNCHANGED <<svars, bvars, dvars, fvars>>

RegenerationSpec == RegenerationSpecInit /\ [][RegenerationSpecNext]_vars

\* the form with a file list near the limit
LimitSpecInit == ServerIdle /\ BatchIdle /\ LimitInit /\ DeleteIdle /\ DashboardIdle

LimitSpecNext == LimitNext /\ UNCHANGED <<svars, bvars, dvars, fvars>>

LimitSpec == LimitSpecInit /\ [][LimitSpecNext]_vars

\* the same form, with a cancelled regeneration request still in flight
BackgroundSpecInit == ServerIdle /\ BatchIdle /\ BackgroundInit /\ DeleteIdle /\ DashboardIdle

BackgroundSpecNext == SessionNext /\ UNCHANGED <<svars, bvars, dvars, fvars>>

BackgroundSpec == BackgroundSpecInit /\ [][BackgroundSpecNext]_vars

\* deletions and uploads against a stored batch
DeleteSpecInit == DeleteInit /\ BatchIdle /\ ClientIdle /\ DashboardIdle

DeleteSpecNext == DeleteNext /\ UNCHANGED <<bvars, cvars, fvars>>

DeleteSpec == DeleteSpecInit /\ [][DeleteSpecNext]_vars

\* the dashboard page, from mount on
DashboardSpecInit ==
  ServerIdle /\ BatchIdle /\ ClientIdle /\ DeleteIdle /\ DashboardInit

DashboardSpecNext == DashboardNext /\ UNCHANGED <<svars, bvars, cvars, dvars>>

DashboardSpec == DashboardSpecInit /\ [][DashboardSpecNext]_vars

\* ---------------------------------------------------------------- claims
Recorded(r) ==
  \E k \in 1..Len(dbImages) :
    /\ dbImages[k].userId = req[r].userId
    /\ dbImages[k].batchId = req[r].batchId
    /\ \E j \in 1..Len(dbImages[k].images) : dbImages[k].images[j].by = r

DebitsOf(u) ==
  {k \in 1..Len(dbActivity[u].tokenHistory) :
     dbActivity[u].tokenHistory[k].actionType = "usage"}

\* C1: a user who starts with exactly one token never has two requests that
\* both end with a successful debit, and the balance never drops below 0.
C1_AtMostOneDebitOnLastToken ==
  \A u \in Users :
    initTokens[u] = 1 =>
      /\ Cardinality({r \in Req : req[r].userId = u /\ ev[r].debit = "ok"}) <= 1
      /\ dbActivity[u].availableTokens >= 0

\* C2: every debit in a user's ledger was made by a request whose put had
\* succeeded, and a request whose generation or put failed makes no debit.
C2_DebitOnlyAfterPut ==
  /\ \A u \in Users : \A k \in DebitsOf(u) :
       ev[dbActivity[u].tokenHistory[k].img].put = "ok"
  /\ \A r \in Req :
       (ev[r].gen = "fail" \/ ev[r].put = "fail") =>
         /\ ev[r].debit = "none"
         /\ doc[r].pending = <<>>
         /\ \A u \in Users : \A k \in DebitsOf(u) :
              dbActivity[u].tokenHistory[k].img # r

C2_Witness ==
  \E r1, r2 \in Req :
    /\ ev[r1].debit = "ok"
    /\ \E k \in DebitsOf(req[r1].userId) :
         dbActivity[req[r1].userId].tokenHistory[k].img = r1
    /\ ev[r2].put = "fail"
    /\ pc[r2] = "done"

\* C4: a user's balance is never negative and equals the sum of the deltas
\* of the user's ledger entries.
C4_BalanceIsLedgerSum ==
  \A u \in Users :
    dbActivity[u].exists =>
      /\ dbActivity[u].availableTokens >= 0
      /\ dbActivity[u].availableTokens = SumDeltas(dbActivity[u].tokenHistory)

\* C10: when the debit fails after a successful put, the object stays in the
\* store and the image is recorded and reported as a success.
C10_DebitFailureStillSuccess ==
  \A r \in Req :
    (ev[r].put = "ok" /\ ev[r].debit = "fail") =>
      /\ ObjectKey(req[r]) \in s3
      /\ Recorded(r)
      /\ resp[r].status = 200

\* ------------------------------------------------ claims about the batch
\* remainingTokens of the BatchResult
RemainingTokens == bBalance

SuccPos == {bSucc[k].pos : k \in 1..Len(bSucc)}
FailPos == {bFail[k].pos : k \in 1..Len(bFail)}

FailedAs(i, reason) ==
  \E k \in 1..Len(bFail) : bFail[k].pos = i /\ bFail[k].error = reason

IsInvalid(f) ==
  \/ bKind[f].mime \notin {"image/jpeg", "image/png", "image/webp"}
  \/ bKind[f].size > 45

PerItemFailures == {"generation error", "generation timeout", "storage failed"}

\* C3: when a pass is over, successfulImages and failedImages together hold
\* exactly one outcome for each submitted image.
C3_OneOutcomePerImage ==
  bpc = "done" =>
    /\ Len(bSucc) + Len(bFail) = Len(bImages)
    /\ \A i \in Pos :
         Cardinality({k \in 1..Len(bSucc) : bSucc[k].pos = i})
           + Cardinality({k \in 1..Len(bFail) : bFail[k].pos = i}) = 1

C3_Witness ==
  /\ bpc = "done"
  /\ bPass > 1
  /\ Len(bImages) >= 2
  /\ bSucc # <<>>
  /\ \E i \in Pos : FailedAs(i, "storage failed")

\* C5: without a ledger-level error, remainingTokens is the balance at the
\* start of the pass minus the number of successful images, each success was
\* debited once and no failed image was debited.
C5_OneTokenPerSuccess ==
  (bpc = "done" /\ ~bLedgerErr) =>
    /\ RemainingTokens = bStart - Len(bSucc)
    /\ SumDeltas(bLedger) = RemainingTokens
    /\ \A i \in Pos :
         /\ i \in SuccPos => bCalls[i].debit
         /\ i \in FailPos => ~bCalls[i].debit
    /\ \A i \in Pos :
         Cardinality({k \in 1..Len(bLedger) :
                        bLedger[k].actionType = "usage" /\ bLedger[k].img = bImages[i]})
           = IF i \in SuccPos THEN 1 ELSE 0

C5_Witness ==
  /\ bpc = "done"
  /\ bPass = 1
  /\ ~bLedgerErr
  /\ Len(bImages) = 3
  /\ bStart = 5
  /\ Len(bSucc) = 3
  /\ RemainingTokens = 2

C6_State ==
  bShort # -1 =>
    /\ Queued = {}
    /\ \A j \in Pos :
         (~IsInvalid(bImages[j]) /\ ~bCalls[j].gen) =>
           /\ bReason[j] = "insufficient tokens"
           /\ ~bCalls[j].put
           /\ ~bCalls[j].debit
           /\ bStage[j] = "recorded" => FailedAs(j, "insufficient tokens")
    /\ (/\ bpc = "done"
        /\ ~bLedgerErr
        /\ \A j \in Pos : bCalls[j].gen => j \in SuccPos) => RemainingTokens = 0

C6_Frame ==
  (bpc = "running" /\ bShort = -1 /\ bShort' # -1) =>
    /\ bSucc' = bSucc
    /\ bFail' = bFail
    /\ bBalance' = bBalance
    /\ \A j \in Pos :
         bStage[j] # "queued" => (bStage'[j] = bStage[j] /\ bReason'[j] = bReason[j])

C7_FailureIsLocal ==
  bpc \in {"running", "done"} =>
    /\ \A i \in Pos :
         bReason[i] \in PerItemFailures =>
           /\ ~bCalls[i].debit
           /\ \A k \in 1..Len(bLedger) : bLedger[k].img # bImages[i]
           /\ bStage[i] = "recorded" => FailedAs(i, bReason[i])
    /\ \A j \in Pos : bReason[j] = "insufficient tokens" => bShort # -1
    /\ bpc = "done" =>
         \A j \in Pos :
           /\ ~IsInvalid(bImages[j]) => (bCalls[j].gen \/ bReason[j] = "insufficient tokens")
           /\ (bCalls[j].put /\ bImages[j] \in bStore) => j \in SuccPos

C7_Witness ==
  /\ bpc = "done"
  /\ bPass = 1
  /\ Len(bImages) = 3
  /\ FailedAs(2, "generation timeout")
  /\ ~bCalls[2].debit
  /\ SuccPos = {1, 3}
  /\ RemainingTokens = bStart - 2

\* C8: an image of a disallowed type or above the size ceiling fails with
\* "invalid file" with no call of the generator, the blob store or the ledger,
\* the other images are processed, and a file rejected in the previous pass is
\* rejected for the same reason when it is submitted again.
C8_InvalidFileRejected ==
  bpc \in {"running", "done"} =>
    /\ \A i \in Pos :
         IsInvalid(bImages[i]) =>
           /\ bReason[i] = "invalid file"
           /\ bCalls[i] = NoCalls
           /\ bImages[i] \notin bStore
           /\ bStage[i] = "recorded" => FailedAs(i, "invalid file")
    /\ \A i \in Pos : bImages[i] \in bPrev => bReason[i] = "invalid file"
    /\ bpc = "done" =>
         \A j \in Pos :
           ~IsInvalid(bImages[j]) => (bCalls[j].gen \/ bReason[j] = "insufficient tokens")

C8_Witness ==
  /\ bpc = "done"
  /\ bPass = 2
  /\ bSucc # <<>>
  /\ \E i \in Pos :
       /\ bImages[i] \in bPrev
       /\ bKind[bImages[i]].size > 45
       /\ FailedAs(i, "invalid file")

\* C9: in successfulImages and in failedImages the outcomes stand in the
\* order in which their images were submitted.
C9_SubmissionOrder ==
  /\ \A k, l \in 1..Len(bSucc) : k < l => bSucc[k].pos < bSucc[l].pos
  /\ \A k, l \in 1..Len(bFail) : k < l => bFail[k].pos < bFail[l].pos

C9_Witness ==
  /\ bpc = "done"
  /\ bOverlap
  /\ Len(bSucc) >= 2
  /\ Len(bFail) >= 1


\* ----------------------------------------------- claims about the form
\* the cycles whose handleFileUpload has not returned or thrown
Active == {c \in Cycles : cyc[c].st \in {"await", "sent", "timedout"}}

NoDuplicates(s) == \A j, k \in 1..Len(s) : s[j] = s[k] => j = k

\* C11: a regeneration never sends a file that is in the success list of the
\* session, and the success list never holds the same file twice.
C11_NoSuccessResubmitted ==
  /\ \A c \in Active :
       cyc[c].regen => Range(cyc[c].sent) \cap Range(cyc[c].capSucc) = {}
  /\ NoDuplicates(ui.uploadResponse.successfulImages)

\* the step in which the result of the regeneration cycle c is received
RegenerationResult(c) ==
  /\ cyc[c].st = "sent"
  /\ cyc[c].regen
  /\ cyc'[c].st = "done"
  /\ cyc'[c].out = "result"

C12_Merged(c) ==
  LET prior == ui.uploadResponse.successfulImages
      merged == ui'.uploadResponse.successfulImages
      new == SubSeq(merged, Len(prior) + 1, Len(merged))
      okset == {k \in 1..Len(cyc[c].sent) : cyc[c].sent[k] \in Range(new)}
  IN /\ ~ui'.uploadResponse.isNull
     /\ Len(merged) >= Len(prior)
     /\ SubSeq(merged, 1, Len(prior)) = prior
     /\ new = SelectSeq2(cyc[c].sent, okset)
     /\ ui'.failedUploads = FailedImages(cyc[c].sent, okset)
     /\ ui'.uploadResponse.remainingTokens = srvTokens'
     /\ ui'.processedCount = Len(merged)

\* C12: the step that receives a regeneration result leaves the success list
\* as the list before the step followed by the new successes, the failure
\* list as the new failedImages, remainingTokens as the server's new balance
\* and processedCount as the length of the merged list.
C12_RegenerationMerge ==
  [][\A c \in Cycles : RegenerationResult(c) => C12_Merged(c)]_vars

\* the step in which the result of the cycle c is received
ResultReceived(c) ==
  /\ cyc[c].st = "sent"
  /\ cyc'[c].st = "done"
  /\ cyc'[c].out = "result"

\* the submitted files of c that the failure list after the step names
NamedInFailures(c) ==
  {f \in Range(cyc[c].sent) :
     \E j \in 1..Len(ui'.failedUploads) :
       ui'.failedUploads[j].filename = FileName(f)}

C13_FailedFilesExact ==
  \A c \in Cycles :
    (ResultReceived(c) /\ ui'.failedUploads # <<>>) =>
      /\ Range(ui'.failedFiles) = NamedInFailures(c)
      /\ NoDuplicates(ui'.failedFiles)

C13_Offered ==
  (ui.showModal /\ ~ui.uploadInProgress
     /\ uploadStatus \in {"partialSuccess", "allFailed"})
    => RegenerateOffered

\* C13: the step that receives a result with failures leaves failedFiles as
\* exactly the submitted files that failedImages names, and the result dialog
\* offers the regeneration whenever uploadStatus is partialSuccess or
\* allFailed.
C13_RegenerationScope == [][C13_FailedFilesExact]_vars /\ []C13_Offered

\* the classification the outcomes of the session's files call for
Classification ==
  LET items == Range(ui.files)
      succ == Range(ui.uploadResponse.successfulImages)
  IN IF items \subseteq succ THEN "allSuccess"
     ELSE IF items \cap succ = {} THEN "allFailed"
     ELSE "partialSuccess"

\* C14: uploadStatus is none as long as no result has been received, and in
\* the result dialog of a session that holds a result it is allSuccess when
\* no file of the session failed, allFailed when every file failed and
\* partialSuccess otherwise.
C14_Classification ==
  /\ (\A c \in Cycles : cyc[c].out # "result") => uploadStatus = "none"
  /\ (~ui.uploadResponse.isNull /\ ui.showModal /\ ~ui.uploadInProgress)
       => uploadStatus = Classification

\* the step in which handleSubmit starts an upload cycle
SubmitStarts ==
  /\ nCyc' = nCyc + 1
  /\ ~cyc'[nCyc'].regen

\* the step in which handleSubmit opens the insufficient-tokens dialog
SubmitRefused == ~ui.inSufficientTokenModal /\ ui'.inSufficientTokenModal

C15_Submit ==
  /\ SubmitStarts =>
       /\ Len(ui.files) > 0
       /\ ui.tokens # NullTokens
       /\ ui.tokens >= Len(ui.files)
  /\ SubmitRefused =>
       /\ ui.tokens < Len(ui.files)
       /\ UNCHANGED <<cyc, nCyc, xhrRef, progressRef>>
       /\ ui' = [ui EXCEPT !.inSufficientTokenModal = TRUE]

\* C15: handleSubmit starts an upload only with a non-empty file list and a
\* fetched balance that is at least the number of files; when it opens the
\* insufficient-tokens dialog it starts no cycle and changes nothing else.
C15_HeadroomPreCheck == [][C15_Submit]_vars

\* a step inside one upload cycle: before and after it an upload is in
\* progress and the latest cycle is the only one that has not ended
WithinCycle ==
  /\ ui.uploadInProgress /\ ui'.uploadInProgress
  /\ nCyc' = nCyc
  /\ Active = {nCyc} /\ Active' = {nCyc}

\* C16: the displayed progress is always within 0..100 and no step inside
\* an upload cycle lowers it.
C16_ProgressMonotone ==
  /\ [](ui.progress \in 0..100)
  /\ [][WithinCycle => ui'.progress >= ui.progress]_vars

\* C17: while the latest cycle is the only one that has not ended, progress
\* is 100 with an upload in progress only if the request of that cycle has
\* been sent and its body is fully transmitted.
C17_ServerProcessing ==
  (ui.uploadInProgress /\ ui.progress = 100 /\ Active = {nCyc}) =>
    /\ cyc[nCyc].st \in {"sent", "timedout"}
    /\ cyc[nCyc].loaded = Total

\* the step in which cancelUpload runs while an upload is in progress
CancelStep == ui.uploadInProgress /\ ui.showModal /\ ~ui'.showModal

C18_Cancelled ==
  CancelStep =>
    /\ ~ui'.loading
    /\ ~ui'.uploadingStarted
    /\ ~ui'.uploadInProgress
    /\ ui'.failedUploads = ui.failedUploads

\* C18: cancelUpload during an upload leaves loading, uploadingStarted and
\* uploadInProgress false and records no failure entry, and a cycle that was
\* cancelled never has a request in flight afterwards.
C18_CancelStops ==
  /\ [][C18_Cancelled]_vars
  /\ [](\A c \in Cycles : cyc[c].cancelled => cyc[c].st # "sent")

\* C19: once the transport of the latest cycle has produced its outcome (a
\* loaded response, an error, an abort or the expiry of xhr.timeout), no
\* upload is in progress any more.
C19_OutcomeEndsCycle ==
  \A c \in Cycles :
    (c = nCyc /\ cyc[c].st \in {"done", "timedout"}) => ~ui.uploadInProgress

\* the step in which the request of the cycle c ends with a malformed body,
\* a connectivity error or a non-2xx status
ErrorStep(c) ==
  /\ cyc[c].st = "sent"
  /\ cyc'[c].st = "done"
  /\ cyc'[c].out = "error"

C20_Fatal(c) ==
  /\ Len(ui'.failedUploads) = 1
  /\ ui'.failedUploads[1].filename =
       (IF cyc[c].regen THEN "Batch regeneration" ELSE "Batch upload")
  /\ ui'.failedUploads[1].error \in TransportErrors
  /\ ~ui'.loading /\ ~ui'.uploadingStarted /\ ~ui'.uploadInProgress
  /\ nCyc' = nCyc
  /\ \A d \in Cycles : cyc'[d].st \in {"await", "sent"} => cyc'[d] = cyc[d]

AuthErrorStep(c) ==
  /\ ErrorStep(c)
  /\ Len(ui'.failedUploads) = 1
  /\ ui'.failedUploads[1].error = AuthMsg

\* C21: after an error response whose message is "invalid token" the dialog
\* offers to log in again and does not offer to retry the failed files.
C21_AuthError ==
  [][\A c \in Cycles : AuthErrorStep(c) => LogInOffered' /\ ~RegenerateOffered']_vars

\* C22: xhrRef is null whenever no upload is in progress, and when it is not
\* null it holds the request of the latest cycle, which is still in flight.
C22_HandleReleased ==
  /\ ~ui.uploadInProgress => xhrRef = NoXhr
  /\ xhrRef # NoXhr => xhrRef = nCyc /\ cyc[nCyc].st = "sent"

\* the step in which regenerateFailedFiles builds its request
RegenerationStart ==
  /\ nCyc' = nCyc + 1
  /\ cyc'[nCyc'].regen

\* C23: a regeneration starts only while the session holds a BatchResult, its
\* request carries the batch id of that result, which is not empty, and the
\* result of a regeneration keeps the batch id of its request.
C23_RegenerationBatchId ==
  /\ [][RegenerationStart =>
          /\ ~ui.uploadResponse.isNull
          /\ cyc'[nCyc'].batchId = ui.uploadResponse.batchId
          /\ cyc'[nCyc'].batchId # 0]_vars
  /\ [][\A c \in Cycles : RegenerationResult(c) =>
          ui'.uploadResponse.batchId = cyc[c].batchId]_vars

\* C24: the request of a regeneration of a batch carries the titleLength,
\* descriptionLength and keywordCount the batch was created with.
C24_SettingsReused ==
  [][(RegenerationStart /\ ~ui.uploadResponse.isNull) =>
       cyc'[nCyc'].settings = ui.uploadResponse.settings]_vars

\* C25: no two batch records have the same batch id and different owning
\* users.
C25_OneOwnerPerBatch ==
  \A i, j \in 1..Len(dbImages) :
    dbImages[i].batchId = dbImages[j].batchId
      => dbImages[i].userId = dbImages[j].userId

\* C26: the outcome of an image is in the batch record only after the debit
\* of its token has been performed.
C26_DebitBeforeAppend ==
  \A r \in Req : ev[r].rec = "ok" => ev[r].debit = "ok"

\* the append of the request r: a record is created when the user has none
\* for the batch id, otherwise the image goes to the end of the record there
\* is; every earlier record and entry stays as it was
C27_Append(r) ==
  LET u == req[r].userId
      b == req[r].batchId
      old == RecordsOf(dbImages, u, b)
      img == [imageName |-> req[r].file, by |-> r]
  IN /\ \A i \in 1..Len(dbImages) :
          /\ dbImages'[i].userId = dbImages[i].userId
          /\ dbImages'[i].batchId = dbImages[i].batchId
          /\ dbImages'[i].images =
               IF i \in old THEN Append(dbImages[i].images, img)
               ELSE dbImages[i].images
     /\ IF old = {}
          THEN /\ Len(dbImages') = Len(dbImages) + 1
               /\ dbImages'[Len(dbImages')] =
                    [userId |-> u, batchId |-> b, id |-> r, images |-> <<img>>]
          ELSE Len(dbImages') = Len(dbImages)

\* C27: the first append for a user and batch id creates one record, every
\* later append adds its image to that record and changes nothing else, and
\* there are never two records for the same user and batch id.
C27_UpsertAppend ==
  /\ [](\A u \in Users, b \in SuppliedBatchIds \cup {Uuid(r) : r \in Req} :
          Cardinality(RecordsOf(dbImages, u, b)) <= 1)
  /\ [][dbImages' # dbImages =>
          \E r \in Req : /\ pc[r] = "findOneAndUpdate"
                         /\ pc'[r] = "save"
                         /\ C27_Append(r)]_vars

C27_Witness ==
  \E i \in 1..Len(dbImages) :
    /\ Len(dbImages[i].images) = 2
    /\ dbImages[i].images[1].by # dbImages[i].images[2].by

C29_NoOrphanObject ==
  \A r \in Req :
    (pc[r] = "done" /\ ev[r].put = "ok") =>
      \E i \in RecordsOf(dbImages, req[r].userId, req[r].batchId) :
        \E k \in 1..Len(dbImages[i].images) : dbImages[i].images[k].by = r

\* C30: the file list never holds more than 100 files, and neither does the
\* request of a submission or of a regeneration.
C30_FileLimit ==
  /\ Len(ui.files) <= FileLimit
  /\ \A c \in Cycles : Len(cyc[c].sent) <= FileLimit

C30_Witness ==
  /\ Len(ui.files) = FileLimit
  /\ \E c \in Cycles : cyc[c].st = "sent" /\ Len(cyc[c].sent) = FileLimit

\* the frame loop of the cycle c has an update of the displayed progress to do
RafPending(c) ==
  /\ progressRef # cyc[c].cap
  /\ ui.progress # progressRef

\* C31: when the body of the request of the session's only cycle is fully
\* sent, the response has not arrived and the frame loop has nothing left to
\* do, the displayed progress is 100.
C31_ShowsServerProcessing ==
  \A c \in Cycles :
    (/\ c = nCyc
     /\ Active = {c}
     /\ ui.uploadInProgress
     /\ cyc[c].st = "sent"
     /\ cyc[c].loaded = Total
     /\ ~RafPending(c)) => ui.progress = 100

\* C32: at most one request is in flight, and xhrRef refers to the request
\* that is in flight.
C32_OneRequestInFlight ==
  /\ Cardinality({c \in Cycles : cyc[c].st = "sent"}) <= 1
  /\ \A c \in Cycles : cyc[c].st = "sent" => xhrRef = c

\* a step of a cycle for which cancelUpload has run: it does not send the
\* request and does not end with a write to the result of the session
C33_Silent(c) ==
  /\ ~(cyc[c].st = "await" /\ cyc'[c].st = "sent")
  /\ cyc'[c].st = "done" =>
       /\ ui'.uploadResponse = ui.uploadResponse
       /\ ui'.failedUploads = ui.failedUploads
       /\ ui'.failedFiles = ui.failedFiles
       /\ ui'.processedCount = ui.processedCount

\* C33: a cycle for which cancelUpload has run sends no request afterwards
\* and writes no result into the session.
C33_CancelledCycleSilent ==
  [][\A c \in Cycles : cyc[c].cancelled => C33_Silent(c)]_vars


\* a regeneration request is being prepared or is in flight
RegenOutstanding ==
  \E c \in Cycles : cyc[c].regen /\ cyc[c].st \in {"await", "sent"}

\* the cumulative result of the session is left as it is
C34_Frame ==
  /\ ui'.uploadResponse = ui.uploadResponse
  /\ ui'.failedUploads = ui.failedUploads
  /\ ui'.failedFiles = ui.failedFiles

C35_FailedListsAgree ==
  /\ ~ui.uploadInProgress => Len(ui.failedUploads) = Len(ui.failedFiles)
  /\ RegenerateOffered => Len(ui.failedFiles) > 0


\* the batch record of the request d holds the entry of the image it names
EntryPresent(d) ==
  \E i \in RecordsOf(dbImages, del[d].userId, del[d].batchId) :
    \E j \in 1..Len(dbImages[i].images) :
      dbImages[i].images[j].by = del[d].imageId

\* C36: a deleteImage request that ends with the blob-store delete failed
\* leaves the image's entry in the batch record, and one that succeeds
\* leaves neither the entry nor a batch record without images.
C36_DeleteTogether ==
  \A d \in Del :
    del[d].pc = "done" =>
      /\ del[d].obj = "fail" => EntryPresent(d)
      /\ del[d].status = 200 =>
           /\ ~EntryPresent(d)
           /\ \A i \in RecordsOf(dbImages, del[d].userId, del[d].batchId) :
                dbImages[i].images # <<>>

\* C37: an image that uploadSingleImage stored and debited has its entry in
\* the batch record, whatever deleteImage requests for other images of the
\* batch do meanwhile.
C37_ReapKeepsNewImage ==
  \A r \in Req : ev[r].debit = "ok" => Recorded(r)


\* the delays of the retries of one call, in order
Backoff == <<1000, 2000, 4000>>

\* the attempt of the call k that is running ends in this step
AttemptEnds(k) == chain[k].st = "running" /\ chain'[k].st # "running"

\* C38: every call of fetchDashboardData() schedules at most 3 retries, with
\* delays of 1, 2 and 4 seconds in that order and each after a failure
\* classified as a network error; another failure schedules none, and the
\* loading flag is false when an attempt has ended.
C38_BoundedRetries ==
  /\ [](\A k \in Calls :
          /\ chain[k].retryCount <= MaxRetries
          /\ Len(chain[k].delays) <= MaxRetries
          /\ chain[k].delays = SubSeq(Backoff, 1, Len(chain[k].delays))
          /\ chain[k].st = "waiting" => IsNetworkError(chain[k].last))
  /\ [][\A k \in Calls :
          AttemptEnds(k) =>
            /\ ~dash'.isLoading
            /\ chain'[k].delays # chain[k].delays =>
                 IsNetworkError(chain'[k].last)
            /\ (chain'[k].last # NoFailure /\ ~IsNetworkError(chain'[k].last)) =>
                 /\ chain'[k].delays = chain[k].delays
                 /\ chain'[k].st = "ended"]_vars

C38_Witness ==
  \E k \in Calls :
    /\ chain[k].st = "ended"
    /\ chain[k].delays = Backoff
    /\ chain[k].retryCount = MaxRetries
    /\ IsNetworkError(chain[k].last)
    /\ ~dash.isLoading


\* C39: when a regeneration returns a result, the count of the success toast
\* is the number of files sent minus the number of failures of the response.
C39_RegeneratedCount ==
  [][\A c \in Cycles :
       RegenerationResult(c) =>
         cyc'[c].toast = Len(cyc[c].sent) - Len(ui'.failedUploads)]_vars

====
